---- MODULE Spec2Model ----
(***************************************************************************)
(* Model of the App component of src/client/index.tsx: the presence        *)
(* message handler (onMessage), the marker store (positions), the visitor  *)
(* counter, and the globe's per-frame callback (onRender) with its         *)
(* rotation angle, up to the effect cleanup that destroys the globe.       *)
(*                                                                         *)
(* Callbacks run on one JavaScript event loop, so each callback is one     *)
(* action.  Sizes and angles are kept in hundredths (0.1 -> 10,            *)
(* 0.05 -> 5, 0.01 -> 1) so that they stay integers.                       *)
(***************************************************************************)
EXTENDS Integers, Sequences, FiniteSets, TLC

VARIABLES counter, positions, socketId, phi, stateMarkers, statePhi,
          mounted, destroyCalls, thrown, frames, lastAdd

vars == <<counter, positions, socketId, phi, stateMarkers, statePhi,
          mounted, destroyCalls, thrown, frames, lastAdd>>

(* ---------------- bounds of the model ---------------- *)
MaxCounter == 2
MaxFrames == 2

(* ---------------- program constants (hundredths) ---------------- *)
SelfSize == 10
PeerSize == 5
PhiIncrement == 1

(* ---------------- input domains ---------------- *)
UNDEF == "undefined"
Ids == {"a", "b"}
Keys == Ids \cup {UNDEF}
Lats == {10, 30}
Lngs == {20}
Absent == <<>>

(* A payload is the text of one frame.  Text that is not JSON has          *)
(* valid = FALSE; otherwise value is what the text denotes: null, a        *)
(* scalar, or an object with optional type, position and id members.       *)
NoPosition == [id |-> UNDEF, lat |-> 0, lng |-> 0]

AddPayloads ==
  { [valid |-> TRUE, kind |-> "object", type |-> "add-marker",
     hasPosition |-> TRUE, position |-> [id |-> i, lat |-> la, lng |-> ln],
     id |-> UNDEF] : i \in Ids, la \in Lats, ln \in Lngs }

RemovePayloads ==
  { [valid |-> TRUE, kind |-> "object", type |-> t,
     hasPosition |-> FALSE, position |-> NoPosition,
     id |-> i] : t \in {"remove-marker", "remove"}, i \in Ids }

MalformedPayloads ==
  { [valid |-> FALSE, kind |-> "text", type |-> UNDEF,
     hasPosition |-> FALSE, position |-> NoPosition, id |-> UNDEF],
    [valid |-> TRUE, kind |-> "null", type |-> UNDEF,
     hasPosition |-> FALSE, position |-> NoPosition, id |-> UNDEF],
    [valid |-> TRUE, kind |-> "scalar", type |-> UNDEF,
     hasPosition |-> FALSE, position |-> NoPosition, id |-> UNDEF],
    [valid |-> TRUE, kind |-> "object", type |-> UNDEF,
     hasPosition |-> FALSE, position |-> NoPosition, id |-> UNDEF],
    [valid |-> TRUE, kind |-> "object", type |-> "add-marker",
     hasPosition |-> FALSE, position |-> NoPosition, id |-> "a"] }
  \cup
  { [valid |-> TRUE, kind |-> "object", type |-> "add-marker",
     hasPosition |-> TRUE, position |-> [id |-> UNDEF, lat |-> la, lng |-> 20],
     id |-> UNDEF] : la \in {10} }

Payloads == AddPayloads \cup RemovePayloads \cup MalformedPayloads

(* ---------------- the JavaScript Map held in positions ---------------- *)
(* A Map is its entries in insertion order, keys unique.                   *)
HasKey(m, k) == \E i \in DOMAIN m : m[i].key = k

MapSetAppend(m, k, v) == Append(m, [key |-> k, value |-> v])

MapSet(m, k, v) ==
  IF HasKey(m, k)
    THEN [i \in DOMAIN m |-> IF m[i].key = k THEN [key |-> k, value |-> v] ELSE m[i]]
    ELSE Append(m, [key |-> k, value |-> v])

MapDelete(m, k) == SelectSeq(m, LAMBDA e : e.key # k)

MapValues(m) == [i \in DOMAIN m |-> m[i].value]

(* ---------------- onMessage ---------------- *)
JSONparse(data) ==
  IF data.valid THEN [ok |-> TRUE, value |-> data] ELSE [ok |-> FALSE, value |-> data]

MarkerSizeSwapped(id, sid) == IF id = sid THEN PeerSize ELSE SelfSize

MarkerSize(id, sid) == IF id = sid THEN SelfSize ELSE PeerSize

CounterAfterAdd(c) == c + 1

CounterAfterRemoveIfPresent(c, m, k) == IF HasKey(m, k) THEN c - 1 ELSE c

CounterAfterRemove(c, m, k) == c - 1

(* The handler raises when JSON.parse rejects the text, when the value is  *)
(* null (message.type), or when an add-marker has no position              *)
(* (message.position.id); nothing has been written at any of these points. *)
Raises(data) ==
  \/ ~JSONparse(data).ok
  \/ JSONparse(data).value.kind = "null"
  \/ /\ JSONparse(data).value.type = "add-marker"
     /\ ~JSONparse(data).value.hasPosition

onMessage(data) ==
  LET message == JSONparse(data).value IN
  /\ IF Raises(data)
       THEN /\ thrown' = TRUE
            /\ UNCHANGED <<positions, counter, lastAdd>>
       ELSE IF message.type = "add-marker"
         THEN /\ positions' = MapSet(positions, message.position.id,
                     [location |-> <<message.position.lat, message.position.lng>>,
                      size |-> MarkerSize(message.position.id, socketId)])
              /\ counter' = CounterAfterAdd(counter)
              /\ lastAdd' = [lastAdd EXCEPT ![message.position.id] =
                               <<message.position.lat, message.position.lng>>]
              /\ thrown' = FALSE
         ELSE /\ positions' = MapDelete(positions, message.id)
              /\ counter' = CounterAfterRemove(counter, positions, message.id)
              /\ lastAdd' = [lastAdd EXCEPT ![message.id] = Absent]
              /\ thrown' = FALSE
  /\ UNCHANGED <<socketId, phi, stateMarkers, statePhi, mounted, destroyCalls, frames>>

(* ---------------- onRender ---------------- *)
NextPhiStuck(p) == p

NextPhi(p) == p + PhiIncrement

onRenderStale ==
  /\ stateMarkers' = stateMarkers
  /\ statePhi' = phi
  /\ phi' = NextPhi(phi)
  /\ frames' = frames + 1
  /\ UNCHANGED <<counter, positions, socketId, mounted, destroyCalls, thrown, lastAdd>>

onRenderDrains ==
  /\ stateMarkers' = MapValues(positions)
  /\ positions' = <<>>
  /\ statePhi' = phi
  /\ phi' = NextPhi(phi)
  /\ frames' = frames + 1
  /\ UNCHANGED <<counter, socketId, mounted, destroyCalls, thrown, lastAdd>>

onRender ==
  /\ stateMarkers' = MapValues(positions)
  /\ statePhi' = phi
  /\ phi' = NextPhi(phi)
  /\ frames' = frames + 1
  /\ UNCHANGED <<counter, positions, socketId, mounted, destroyCalls, thrown, lastAdd>>

(* ---------------- effect cleanup ---------------- *)
cleanupKeepsGlobe ==
  /\ mounted' = FALSE
  /\ UNCHANGED <<destroyCalls, counter, positions, socketId, phi, stateMarkers,
                 statePhi, thrown, frames, lastAdd>>

cleanup ==
  /\ destroyCalls' = destroyCalls + 1
  /\ mounted' = FALSE
  /\ UNCHANGED <<counter, positions, socketId, phi, stateMarkers, statePhi,
                 thrown, frames, lastAdd>>

(* ---------------- the event loop ---------------- *)
Init ==
  /\ counter = 0
  /\ positions = <<>>
  /\ socketId \in Ids
  /\ phi = 0
  /\ stateMarkers = <<>>
  /\ statePhi = 0
  /\ mounted = TRUE
  /\ destroyCalls = 0
  /\ thrown = FALSE
  /\ frames = 0
  /\ lastAdd = [k \in Keys |-> Absent]

Deliver(data) ==
  /\ mounted
  /\ onMessage(data)
  /\ counter' \in (-MaxCounter)..MaxCounter

Tick ==
  /\ destroyCalls = 0
  /\ frames < MaxFrames
  /\ onRender

Unmount ==
  /\ mounted
  /\ cleanup

Message == \E data \in Payloads : Deliver(data)

Next == Message \/ Tick \/ Unmount

Spec == Init /\ [][Next]_vars

(* ======================= properties ======================= *)

(* C1: in every reachable state the displayed visitor counter equals the   *)
(* number of entries in the marker store.                                  *)
C1_CounterEqualsStoreSize == counter = Len(positions)

(* C2: the snapshot the next frame takes holds exactly one marker for each *)
(* id whose last message was an add-marker, carrying the location of that  *)
(* add-marker, and none for any other id.                                  *)
C2_SnapshotMatchesLastMessages ==
  LET snapshot == [i \in DOMAIN positions |-> positions[i].value] IN
  /\ Len(snapshot) = Cardinality({k \in Keys : lastAdd[k] # Absent})
  /\ \A k \in Keys :
       IF lastAdd[k] = Absent
         THEN \A i \in DOMAIN positions : positions[i].key # k
         ELSE \E i \in DOMAIN positions :
                /\ positions[i].key = k
                /\ snapshot[i].location = lastAdd[k]
                /\ \A j \in DOMAIN positions : positions[j].key = k => j = i

C2_Witness ==
  /\ counter = 2
  /\ Len(positions) = 1
  /\ positions[1].key = "a"
  /\ lastAdd["a"] = <<30, 20>>
  /\ lastAdd["b"] = Absent

(* C3: a stored marker has size 0.1 when its id is the local connection's  *)
(* id and 0.05 otherwise, and never any other size.                        *)
C3_SizeBySelf ==
  \A i \in DOMAIN positions :
    /\ positions[i].value.size = (IF positions[i].key = socketId THEN 10 ELSE 5)
    /\ positions[i].value.size \in {5, 10}

C3_Witness ==
  /\ Len(positions) = 2
  /\ \E i, j \in DOMAIN positions :
       /\ positions[i].key = socketId
       /\ positions[i].value.size = 10
       /\ positions[j].key # socketId
       /\ positions[j].value.size = 5

(* C4: a removal for an id that is not in the store does not raise and     *)
(* leaves the store unchanged, and neither the store cardinality nor the   *)
(* visitor counter is ever negative.                                       *)
C4_OrphanRemoveHarmless ==
  /\ [](counter >= 0 /\ Len(positions) >= 0)
  /\ [][\A data \in RemovePayloads :
          (~HasKey(positions, data.id) /\ Deliver(data))
             => (positions' = positions /\ ~thrown')]_vars

(* C5: the marker list a frame tick hands to the renderer is the store as  *)
(* left by the messages handled before the tick; a message handled after   *)
(* the tick does not alter the list until the next tick.                   *)
C5_FrameSeesHandledMessages ==
  [][/\ Tick => /\ stateMarkers' = [i \in DOMAIN positions |-> positions[i].value]
                /\ Len(stateMarkers') = Cardinality({k \in Keys : lastAdd[k] # Absent})
     /\ Message => stateMarkers' = stateMarkers]_vars

C5_Witness ==
  /\ frames > 0
  /\ Len(stateMarkers) = 1
  /\ Len(positions) = 2

(* C6: every frame tick advances the rotation angle by the fixed increment;*)
(* the k-th frame receives k-1 increments (the first receives 0), more     *)
(* than the frame before it, and the angle never decreases.                *)
C6_AngleAdvances ==
  [][/\ Tick => /\ phi' = phi + 1
                /\ statePhi' = frames * 1
                /\ (frames > 0 => statePhi' > statePhi)
     /\ phi' >= phi
     /\ statePhi' >= statePhi]_vars

C6_Witness ==
  /\ frames = 2
  /\ statePhi = 1
  /\ phi = 2

(* C7: a malformed payload leaves the marker store and the visitor counter *)
(* unchanged.                                                              *)
C7_MalformedIgnored ==
  [][(\E data \in MalformedPayloads : Deliver(data))
        => UNCHANGED <<positions, counter>>]_vars

(* C8: the globe is destroyed exactly once, on unmount, and after unmount  *)
(* the rotation angle and the renderer's marker list never change.         *)
C8_DestroyedOnceThenStill ==
  /\ [](destroyCalls = (IF mounted THEN 0 ELSE 1))
  /\ [][~mounted => UNCHANGED <<phi, statePhi, stateMarkers, frames>>]_vars

C8_Witness ==
  /\ ~mounted
  /\ destroyCalls = 1
  /\ frames > 0
  /\ Len(stateMarkers) > 0

C10_DisjointWrites ==
  [][/\ Tick => UNCHANGED <<positions, counter, socketId, mounted, destroyCalls>>
     /\ Message => UNCHANGED <<phi, statePhi, stateMarkers, frames, socketId,
                               mounted, destroyCalls>>]_vars

C10_Witness ==
  /\ frames > 0
  /\ phi > 0
  /\ counter = 1
  /\ Len(positions) = 1
  /\ stateMarkers = <<>>

====
